---- MODULE Spec2Model ----
(***************************************************************************)
(* A model of OptParser (OptParser/OptParser.hpp): the option registry     *)
(* opt_, the result store result_, the positional arguments arg_, and the  *)
(* operations addOption, parse, gotOption, optionValue and getArgs.        *)
(*                                                                         *)
(* A std::string is a sequence of one-character strings, so that the       *)
(* regular expression of the token classifier is computed character by     *)
(* character.  C++ indices are kept 0-based (expectVal, optIndex); element *)
(* i of a vector is element i + 1 of the sequence that models it.          *)
(*                                                                         *)
(* parse is modelled twice from the same definitions: as one step (Parse)  *)
(* for what an instance is left with, and token by token (ParseBegin,      *)
(* ParseStep, ParseEnd) for what happens while it runs.  The locals of a   *)
(* running parse are the queue of tokens argQueue (arg in the source),     *)
(* expectVal and isCorrect; pc tells whether parse is inside its loop.     *)
(***************************************************************************)
EXTENDS Integers, Sequences, FiniteSets, TLC

VARIABLES opt_, result_, arg_, parsed, call, ret, thrown, cerr,
          argQueue, expectVal, isCorrect, pc

locals == <<argQueue, expectVal, isCorrect, pc>>
vars == <<opt_, result_, arg_, parsed, call, ret, thrown, cerr, locals>>

\* Bounds of the model: the registry holds at most MaxOpts options and an
\* argument vector has at most MaxArgs tokens after argv[0].
MaxOpts == 2
MaxArgs == 2
\* A token given to the classifier alone has at most MaxLen characters.
MaxLen == 5

-----------------------------------------------------------------------------
(* Strings and characters *)

Str0 == <<>>
LF == "\n"

\* The characters of [a-zA-Z] that the model's strings use.
Letters == {"a", "b", "f", "l", "z"}
\* [a-zA-Z_-]
NameChars == Letters \cup {"_", "-"}
\* The characters '.' does not match in an ECMAScript regular expression.
LineTerminators == {LF, "\r"}

IsLetter(c) == c \in Letters
IsNameChar(c) == c \in NameChars
IsAnyChar(c) == c \notin LineTerminators

\* str.substr(pos - 1): the characters of str from the 1-based position pos on.
substr(str, pos) == SubSeq(str, pos, Len(str))

\* Every character of str is matched by '.'.
AllAnyChar(str) == \A i \in 1..Len(str) : IsAnyChar(str[i])

-----------------------------------------------------------------------------
(* The token classifier: regex_match(token, sm, optRegex_) with            *)
(*   optRegex = (-([a-zA-Z])(.+)?)|(--([a-zA-Z_-]+)=?(.+)?)                *)

\* What regex_match leaves in sm when the token does not match.
NoMatch == [matched |-> FALSE, short |-> FALSE, long |-> FALSE, name |-> Str0,
            hasValue |-> FALSE, value |-> Str0]

\* First alternative, (-([a-zA-Z])(.+)?), on the whole token.
ShortMatches(tok) ==
    /\ Len(tok) >= 2
    /\ tok[1] = "-"
    /\ IsLetter(tok[2])
    /\ AllAnyChar(substr(tok, 3))

\* sm after the first alternative matched: sm[1], sm[2] = name, sm[3] = value.
ShortMatch(tok) ==
    [matched |-> TRUE, short |-> TRUE, long |-> FALSE, name |-> <<tok[2]>>,
     hasValue |-> Len(tok) > 2, value |-> substr(tok, 3)]

\* The number of characters that the greedy [a-zA-Z_-]+ takes from position
\* pos of the token.
RECURSIVE NameLen(_, _)
NameLen(tok, pos) ==
    IF pos <= Len(tok) /\ IsNameChar(tok[pos]) THEN 1 + NameLen(tok, pos + 1) ELSE 0

\* Second alternative, (--([a-zA-Z_-]+)=?(.+)?), on the whole token: sm[4],
\* sm[5] = name, sm[6] = value.  The name is the longest run of name
\* characters after "--", "=?" takes the "=" that follows it when there is
\* one, and "(.+)?" must take all the rest.  When the rest holds a line
\* terminator the matcher backtracks to shorter names and to an untaken "=",
\* which only lengthens what "(.+)?" has to take, so no split matches.
LongMatch(tok) ==
    IF Len(tok) >= 3 /\ tok[1] = "-" /\ tok[2] = "-" /\ NameLen(tok, 3) >= 1
    THEN LET n == NameLen(tok, 3)
             e == IF Len(tok) >= 3 + n /\ tok[3 + n] = "=" THEN 1 ELSE 0
             rest == substr(tok, 3 + n + e)
         IN IF AllAnyChar(rest)
            THEN [matched |-> TRUE, short |-> FALSE, long |-> TRUE,
                  name |-> SubSeq(tok, 3, 2 + n),
                  hasValue |-> Len(rest) > 0, value |-> rest]
            ELSE NoMatch
    ELSE NoMatch

\* regex_match: the alternatives are tried in order.
RegexMatch(tok) ==
    IF ShortMatches(tok) THEN ShortMatch(tok) ELSE LongMatch(tok)

-----------------------------------------------------------------------------
(* The registry *)

\* enum class OptType { value, trigger }
typeValue == "value"
typeTrigger == "trigger"
OptType == {typeValue, typeTrigger}

\* struct OptPar
OptPar(shortName, longName, type, optional, defaultVal) ==
    [shortName |-> shortName, longName |-> longName, defaultVal |-> defaultVal,
     helpMessage |-> Str0, type |-> type, optional |-> optional]

\* struct OptRes, as resize() value-initialises it.
OptRes == [value |-> Str0, present |-> FALSE]

\* std::find_if(opt.begin(), opt.end(), P) - opt.begin(), where hits are the
\* positions (1-based) of the elements of opt that satisfy P: the 0-based
\* index of the first of them, Len(opt) for end().
FindIf(opt, hits) ==
    IF hits # {}
    THEN (CHOOSE i \in hits : \A j \in hits : i <= j) - 1
    ELSE Len(opt)

\* Fault: only the short names are compared.
CollidesOnShortName(par, p) ==
    par.shortName = p.shortName /\ par.shortName # Str0

\* Fault: a name that is empty on both sides counts as shared.
CollidesOnEmptyName(par, p) ==
    \/ par.shortName = p.shortName
    \/ par.longName = p.longName /\ par.longName # Str0

\* The lambda of addOption: par collides with the registered p.
Collides(par, p) ==
    \/ par.shortName = p.shortName /\ par.shortName # Str0
    \/ par.longName = p.longName /\ par.longName # Str0

\* OptParser::optIndex
optIndex(opt, name) ==
    LET it == FindIf(opt, {i \in 1..Len(opt) :
                            opt[i].shortName = name \/ opt[i].longName = name})
    IN IF it # Len(opt) THEN it ELSE -1

-----------------------------------------------------------------------------
(* parse: the lines written to std::cerr *)

\* "warning: expected value for option <opt>, got option '<tok>' instead" and
\* "warning: expected value for option <opt>" (tok empty)
MissingValue(i, tok) == [kind |-> "MissingValue", opt |-> i, tok |-> tok]
\* "warning: unknown option '<tok>'"
UnknownOption(tok) == [kind |-> "UnknownOption", opt |-> -1, tok |-> tok]
\* "warning: mandatory option <opt> is missing"
MissingMandatoryOption(i) == [kind |-> "MissingMandatoryOption", opt |-> i, tok |-> Str0]

-----------------------------------------------------------------------------
(* parse: the body.  st holds what the loop works on: the members result_   *)
(* and arg_, the locals expectVal and isCorrect, and the lines on cerr.     *)

\* Fault: the two clear() calls are left out, so resize() keeps the entries
\* that result_ holds and arg_ keeps its arguments.
ResetWithoutClear(opt, result, arg) ==
    [result |-> [i \in 1..Len(opt) |->
                    [(IF i <= Len(result) THEN result[i] ELSE OptRes)
                        EXCEPT !.value = opt[i].defaultVal]],
     arg |-> arg]

\* result_.clear(); result_.resize(opt_.size()); arg_.clear(); and the loop
\* that sets every value to its option's default.
ResetResults(opt, result, arg) ==
    [result |-> [i \in 1..Len(opt) |-> [OptRes EXCEPT !.value = opt[i].defaultVal]],
     arg |-> <<>>]

\* Fault: the expectation is dropped without a warning and without failing
\* the parse.
AbandonSilently(st, tok) ==
    IF st.expectVal >= 0
    THEN [st EXCEPT !.expectVal = -1]
    ELSE st

\* "should it be a value?": an option arrives while a value is expected.
AbandonExpected(st, tok) ==
    IF st.expectVal >= 0
    THEN [st EXCEPT !.cerr = Append(@, MissingValue(st.expectVal, tok)),
                    !.expectVal = -1,
                    !.isCorrect = FALSE]
    ELSE st

\* Fault: an inline value is stored whatever the type of the option.
OptionFoundAnyType(opt, st, i, sm) ==
    LET st1 == [st EXCEPT !.result[i + 1].present = TRUE]
    IN IF sm.hasValue
       THEN [st1 EXCEPT !.result[i + 1].value = sm.value]
       ELSE IF opt[i + 1].type = typeValue THEN [st1 EXCEPT !.expectVal = i]
       ELSE st1

\* Fault: an option is marked present when it is given its inline value, not
\* when its value is still to come.
OptionFoundPresentWithValue(opt, st, i, sm) ==
    IF opt[i + 1].type = typeValue /\ ~sm.hasValue
    THEN [st EXCEPT !.expectVal = i]
    ELSE IF opt[i + 1].type = typeValue
    THEN [st EXCEPT !.result[i + 1].present = TRUE, !.result[i + 1].value = sm.value]
    ELSE [st EXCEPT !.result[i + 1].present = TRUE]

\* Fault: every option without inline value awaits one, a trigger too.
OptionFoundExpectsValue(opt, st, i, sm) ==
    LET st1 == [st EXCEPT !.result[i + 1].present = TRUE]
    IN IF sm.hasValue
       THEN IF opt[i + 1].type = typeValue
            THEN [st1 EXCEPT !.result[i + 1].value = sm.value]
            ELSE st1
       ELSE [st1 EXCEPT !.expectVal = i]

\* Fault: the value of the first occurrence is kept, a later inline value is
\* dropped.
OptionFoundKeepsFirst(opt, st, i, sm) ==
    LET st1 == [st EXCEPT !.result[i + 1].present = TRUE]
    IN IF opt[i + 1].type = typeValue
       THEN IF sm.hasValue
            THEN IF st.result[i + 1].present THEN st1
                 ELSE [st1 EXCEPT !.result[i + 1].value = sm.value]
            ELSE [st1 EXCEPT !.expectVal = i]
       ELSE st1

\* "parse if found": option i (0-based) was named by the token matched as sm.
OptionFound(opt, st, i, sm) ==
    LET st1 == [st EXCEPT !.result[i + 1].present = TRUE]
    IN IF opt[i + 1].type = typeValue
       THEN IF sm.hasValue
            THEN [st1 EXCEPT !.result[i + 1].value = sm.value]
            ELSE [st1 EXCEPT !.expectVal = i]
       ELSE st1

\* "warning if not found"
OptionNotFound(st, tok) ==
    [st EXCEPT !.cerr = Append(@, UnknownOption(tok))]

\* "short option": sm[1] matched, sm[2] is looked up among the short names.
ShortOption(opt, st, sm, tok) ==
    LET it == FindIf(opt, {i \in 1..Len(opt) : opt[i].shortName = sm.name})
    IN IF it # Len(opt) THEN OptionFound(opt, st, it, sm)
       ELSE OptionNotFound(st, tok)

\* "long option": sm[4] matched, sm[5] is looked up among the long names.
LongOption(opt, st, sm, tok) ==
    LET it == FindIf(opt, {i \in 1..Len(opt) : opt[i].longName = sm.name})
    IN IF it # Len(opt) THEN OptionFound(opt, st, it, sm)
       ELSE OptionNotFound(st, tok)

\* Fault: the expected value is stored and also kept as a positional argument.
TakeValueAndKeep(st, tok) ==
    [st EXCEPT !.result[st.expectVal + 1].value = tok, !.expectVal = -1,
               !.arg = Append(@, tok)]

\* Fault: the value is stored and the option goes on expecting one.
TakeValueKeepsExpecting(st, tok) ==
    [st EXCEPT !.result[st.expectVal + 1].value = tok]

\* else if (expectVal >= 0): the token is the expected value.
TakeValue(st, tok) ==
    [st EXCEPT !.result[st.expectVal + 1].value = tok, !.expectVal = -1]

\* else: the token is a positional argument.
TakePositional(st, tok) ==
    [st EXCEPT !.arg = Append(@, tok)]

\* One turn of while (!arg.empty()) on arg.front() = tok.
ParseToken(opt, st, tok) ==
    LET sm == RegexMatch(tok)
    IN IF sm.matched
       THEN LET st1 == AbandonExpected(st, tok)
            IN IF sm.short THEN ShortOption(opt, st1, sm, tok)
               ELSE IF sm.long THEN LongOption(opt, st1, sm, tok)
               ELSE st1
       ELSE IF st.expectVal >= 0 THEN TakeValue(st, tok)
       ELSE TakePositional(st, tok)

\* The whole loop over the queue of tokens.
RECURSIVE ParseLoop(_, _, _)
ParseLoop(opt, st, args) ==
    IF args = <<>> THEN st
    ELSE ParseLoop(opt, ParseToken(opt, st, Head(args)), SubSeq(args, 2, Len(args)))

\* Fault: a value that is still expected after the loop is forgotten.
EndOfStreamSilently(st) ==
    IF st.expectVal >= 0
    THEN [st EXCEPT !.expectVal = -1]
    ELSE st

\* if (expectVal >= 0) after the loop.
EndOfStream(st) ==
    IF st.expectVal >= 0
    THEN [st EXCEPT !.cerr = Append(@, MissingValue(st.expectVal, Str0)),
                    !.expectVal = -1,
                    !.isCorrect = FALSE]
    ELSE st

\* Fault: a missing mandatory option is reported and the parse is not failed.
ReportMissingOnly(opt, st, i) ==
    IF ~opt[i + 1].optional /\ ~st.result[i + 1].present
    THEN [st EXCEPT !.cerr = Append(@, MissingMandatoryOption(i))]
    ELSE st

\* The body of the final loop for option i (0-based).
ReportMissing(opt, st, i) ==
    IF ~opt[i + 1].optional /\ ~st.result[i + 1].present
    THEN [st EXCEPT !.cerr = Append(@, MissingMandatoryOption(i)),
                    !.isCorrect = FALSE]
    ELSE st

\* The final loop, from option i (0-based) on.
RECURSIVE CheckMandatory(_, _, _)
CheckMandatory(opt, st, i) ==
    IF i >= Len(opt) THEN st
    ELSE CheckMandatory(opt, ReportMissing(opt, st, i), i + 1)

\* OptParser::parse on the tokens args = argv[1..argc-1], run on an instance
\* whose members are opt, result and arg: the members it leaves, the lines it
\* writes and the value it returns (isCorrect).
parse(opt, result, arg, args) ==
    LET reset == ResetResults(opt, result, arg)
        st0 == [result |-> reset.result, arg |-> reset.arg,
                expectVal |-> -1, isCorrect |-> TRUE, cerr |-> <<>>]
    IN CheckMandatory(opt, EndOfStream(ParseLoop(opt, st0, args)), 0)

-----------------------------------------------------------------------------
(* The calls the model makes *)

\* The options registered before parsing: those of tests/print-opt.cpp (with
\* two-letter stand-ins for "long-a" and "long-b"), and two optional ones
\* with a default, a value option without long name and a trigger without
\* short name.
ParsePars ==
    {OptPar(<<"a">>, <<"l", "a">>, typeValue, FALSE, Str0),
     OptPar(<<"b">>, <<"l", "b">>, typeTrigger, FALSE, Str0),
     OptPar(<<"a">>, Str0, typeValue, TRUE, <<"d">>),
     OptPar(Str0, <<"l", "a">>, typeTrigger, TRUE, <<"d">>)}

\* The options registered when the registry and the queries are examined:
\* also an option whose long name is another one's short name, and an option
\* without any name.
OptPars ==
    ParsePars \cup
    {OptPar(<<"b">>, <<"a">>, typeValue, TRUE, <<"d">>),
     OptPar(Str0, Str0, typeValue, TRUE, <<"d">>)}

\* The tokens of the argument vectors: an option with a deferred and with an
\* inline value, in short and in long form, a trigger with trailing text, and
\* plain text.  Each of the options is unknown to the registries that lack it.
Tokens ==
    {<<"-", "a">>,
     <<"-", "a", "f">>,
     <<"-", "-", "l", "a", "=", "f">>,
     <<"-", "b", "f">>,
     <<"f">>}

\* The tokens of the argument vectors when the registry and the queries are
\* examined.
QueryTokens == {<<"-", "a">>, <<"-", "-", "a">>, <<"f">>}

RECURSIVE SeqsUpTo(_, _)
SeqsUpTo(S, n) ==
    IF n = 0 THEN {<<>>}
    ELSE LET shorter == SeqsUpTo(S, n - 1)
         IN shorter \cup {Append(q, x) : q \in shorter, x \in S}

\* argv[1..argc-1]
Argvs == SeqsUpTo(Tokens, MaxArgs)
QueryArgvs == SeqsUpTo(QueryTokens, MaxArgs)

\* The tokens of the argument vectors when parse is followed token by token:
\* a value option without and with an inline value ("b" and "f", so that two
\* occurrences bind different values), a trigger, and plain text.
StepTokens ==
    {<<"-", "a">>,
     <<"-", "a", "b">>,
     <<"-", "-", "l", "a", "=", "f">>,
     <<"-", "b">>,
     <<"f">>}
StepArgvs == SeqsUpTo(StepTokens, MaxArgs)

\* The tokens given to the classifier alone: all strings of at most MaxLen
\* characters over a hyphen, a letter, "=", a character that no name holds,
\* and a line terminator.
ClassifyChars == {"-", "a", "=", "1", LF}
ClassifyTokens == SeqsUpTo(ClassifyChars, MaxLen)

\* The names asked of gotOption and optionValue.
Names == {<<"a">>, <<"l", "a">>, <<"z">>, Str0}

\* The last call: the operation, its arguments, and for parse whether the
\* instance still held a present flag or a positional argument of an earlier
\* parse when it was called.
NoCall == [op |-> "OptParser", par |-> <<>>, args |-> <<>>, name |-> Str0,
           stale |-> FALSE]

-----------------------------------------------------------------------------
(* The instance *)

\* OptParser(void) = default: empty vectors.  parsed records that parse has
\* been called.
Init ==
    /\ opt_ = <<>>
    /\ result_ = <<>>
    /\ arg_ = <<>>
    /\ parsed = FALSE
    /\ call = NoCall
    /\ ret = <<>>
    /\ thrown = "none"
    /\ cerr = <<>>
    /\ argQueue = <<>>
    /\ expectVal = -1
    /\ isCorrect = TRUE
    /\ pc = "idle"

\* OptParser::addOption
AddOption(par) ==
    LET it == FindIf(opt_, {i \in 1..Len(opt_) : Collides(par, opt_[i])})
    IN /\ call' = [NoCall EXCEPT !.op = "addOption", !.par = <<par>>]
       /\ IF it # Len(opt_)
          THEN /\ thrown' = "logic_error"
               /\ opt_' = opt_
          ELSE /\ Len(opt_) < MaxOpts
               /\ thrown' = "none"
               /\ opt_' = Append(opt_, par)
       /\ ret' = <<>>
       /\ cerr' = <<>>
       /\ UNCHANGED <<result_, arg_, parsed, locals>>

\* OptParser::parse
Parse(args) ==
    \E r \in {parse(opt_, result_, arg_, args)} :
       /\ call' = [NoCall EXCEPT !.op = "parse", !.args = args,
                                 !.stale = \/ arg_ # <<>>
                                           \/ \E i \in 1..Len(result_) : result_[i].present]
       /\ result_' = r.result
       /\ arg_' = r.arg
       /\ ret' = <<r.isCorrect>>
       /\ cerr' = r.cerr
       /\ thrown' = "none"
       /\ parsed' = TRUE
       /\ UNCHANGED <<opt_, locals>>

\* Fault: the name is looked at before the sizes.
QueryThrowsNameFirst(opt, result, name) ==
    IF optIndex(opt, name) < 0 THEN "out_of_range"
    ELSE IF Len(result) # Len(opt) THEN "runtime_error"
    ELSE "none"

\* Fault: the sizes are not compared; a name is unknown when the result
\* store has no entry for it.
QueryThrowsNameOnly(opt, result, name) ==
    IF optIndex(opt, name) < 0 \/ optIndex(opt, name) >= Len(result)
    THEN "out_of_range"
    ELSE "none"

\* What gotOption and optionValue throw for name, "none" when they return.
QueryThrows(opt, result, name) ==
    IF Len(result) # Len(opt) THEN "runtime_error"
    ELSE IF optIndex(opt, name) >= 0 THEN "none"
    ELSE "out_of_range"

\* OptParser::gotOption
GotOption(name) ==
    LET i == optIndex(opt_, name)
    IN /\ call' = [NoCall EXCEPT !.op = "gotOption", !.name = name]
       /\ thrown' = QueryThrows(opt_, result_, name)
       /\ ret' = IF thrown' = "none" THEN <<result_[i + 1].present>> ELSE <<>>
       /\ cerr' = <<>>
       /\ UNCHANGED <<opt_, result_, arg_, parsed, locals>>

\* OptParser::optionValue<std::string>: strTo<std::string> returns its argument.
OptionValue(name) ==
    LET i == optIndex(opt_, name)
    IN /\ call' = [NoCall EXCEPT !.op = "optionValue", !.name = name]
       /\ thrown' = QueryThrows(opt_, result_, name)
       /\ ret' = IF thrown' = "none" THEN <<result_[i + 1].value>> ELSE <<>>
       /\ cerr' = <<>>
       /\ UNCHANGED <<opt_, result_, arg_, parsed, locals>>

\* OptParser::getArgs
GetArgs ==
    /\ call' = [NoCall EXCEPT !.op = "getArgs"]
    /\ thrown' = "none"
    /\ ret' = <<arg_>>
    /\ cerr' = <<>>
    /\ UNCHANGED <<opt_, result_, arg_, parsed, locals>>

\* What the loop of a running parse works on: the members result_ and arg_,
\* the locals expectVal and isCorrect, and the lines written so far.
Running ==
    [result |-> result_, arg |-> arg_, expectVal |-> expectVal,
     isCorrect |-> isCorrect, cerr |-> cerr]

\* parse, up to its loop: the tokens argv[1..argc-1] are queued and the
\* results are reset.
ParseBegin(args) ==
    \E reset \in {ResetResults(opt_, result_, arg_)} :
       /\ pc = "idle"
       /\ call' = [NoCall EXCEPT !.op = "parse", !.args = args,
                                 !.stale = \/ arg_ # <<>>
                                           \/ \E i \in 1..Len(result_) : result_[i].present]
       /\ argQueue' = args
       /\ expectVal' = -1
       /\ isCorrect' = TRUE
       /\ result_' = reset.result
       /\ arg_' = reset.arg
       /\ ret' = <<>>
       /\ cerr' = <<>>
       /\ thrown' = "none"
       /\ pc' = "loop"
       /\ UNCHANGED <<opt_, parsed>>

\* Fault: the loop is left at the first token that is reported, and the
\* tokens behind it are dropped.
ParseStepStopsOnWarning ==
    /\ pc = "loop"
    /\ argQueue # <<>>
    /\ \E st \in {ParseToken(opt_, Running, Head(argQueue))} :
          /\ result_' = st.result
          /\ arg_' = st.arg
          /\ expectVal' = st.expectVal
          /\ isCorrect' = st.isCorrect
          /\ cerr' = st.cerr
          /\ argQueue' = IF st.cerr = cerr THEN SubSeq(argQueue, 2, Len(argQueue)) ELSE <<>>
    /\ UNCHANGED <<opt_, parsed, call, ret, thrown, pc>>

\* parse, one turn of its loop: arg.front() is handled and popped.
ParseStep ==
    /\ pc = "loop"
    /\ argQueue # <<>>
    /\ \E st \in {ParseToken(opt_, Running, Head(argQueue))} :
          /\ result_' = st.result
          /\ arg_' = st.arg
          /\ expectVal' = st.expectVal
          /\ isCorrect' = st.isCorrect
          /\ cerr' = st.cerr
    /\ argQueue' = SubSeq(argQueue, 2, Len(argQueue))
    /\ UNCHANGED <<opt_, parsed, call, ret, thrown, pc>>

\* parse, after its loop: the checks at the end of the stream, and return.
ParseEnd ==
    /\ pc = "loop"
    /\ argQueue = <<>>
    /\ \E st \in {CheckMandatory(opt_, EndOfStream(Running), 0)} :
          /\ result_' = st.result
          /\ arg_' = st.arg
          /\ expectVal' = st.expectVal
          /\ isCorrect' = st.isCorrect
          /\ cerr' = st.cerr
          /\ ret' = <<st.isCorrect>>
    /\ parsed' = TRUE
    /\ pc' = "idle"
    /\ UNCHANGED <<opt_, call, thrown, argQueue>>

\* A token is about to be classified.
InitClassify ==
    /\ opt_ = <<>>
    /\ result_ = <<>>
    /\ arg_ = <<>>
    /\ parsed = FALSE
    /\ call \in {[NoCall EXCEPT !.op = "regex_match", !.args = <<tok>>] :
                    tok \in ClassifyTokens}
    /\ ret = <<>>
    /\ thrown = "none"
    /\ cerr = <<>>
    /\ argQueue = <<>>
    /\ expectVal = -1
    /\ isCorrect = TRUE
    /\ pc = "idle"

\* regex_match(arg.front(), sm, optRegex_): ret is what sm holds.
Classify ==
    /\ call.op = "regex_match"
    /\ ret = <<>>
    /\ ret' = <<RegexMatch(call.args[1])>>
    /\ UNCHANGED <<opt_, result_, arg_, parsed, call, thrown, cerr, locals>>

\* An instance that is set up and parses.
Next ==
    \/ \E par \in ParsePars : AddOption(par)
    \/ \E args \in Argvs : Parse(args)

Spec == Init /\ [][Next]_vars

\* An instance that is set up, also with options that are ill named, parses
\* and is asked for its results.
NextQuery ==
    \/ \E par \in OptPars : AddOption(par)
    \/ \E args \in QueryArgvs : Parse(args)
    \/ \E name \in Names : GotOption(name)
    \/ \E name \in Names : OptionValue(name)
    \/ GetArgs

SpecQuery == Init /\ [][NextQuery]_vars

\* An instance that is set up and parses token by token; options are
\* registered between the calls of parse, not while one runs.
NextSteps ==
    \/ pc = "idle" /\ \E par \in ParsePars : AddOption(par)
    \/ \E args \in StepArgvs : ParseBegin(args)
    \/ ParseStep
    \/ ParseEnd

SpecSteps == Init /\ [][NextSteps]_vars

\* The classifier alone, on every token.
NextClassify == Classify

SpecClassify == InitClassify /\ [][NextClassify]_vars

\* parse is not suspended: a turn of the loop that can be taken is taken, and
\* so is the return.
SpecStepsFair == SpecSteps /\ WF_vars(ParseStep) /\ WF_vars(ParseEnd)

-----------------------------------------------------------------------------
(* Properties of parse *)

AfterParse == call.op = "parse"
Returned(v) == ret = <<v>>

\* The token has the shape of an option: optRegex matches it.
OptionShaped(tok) == RegexMatch(tok).matched

\* The token names option o: a short token by o's short name, a long token by
\* o's long name.
NamesOption(o, tok) ==
    LET sm == RegexMatch(tok)
    IN /\ sm.matched
       /\ \/ sm.short /\ sm.name = o.shortName
          \/ sm.long /\ sm.name = o.longName

\* The options of the registry (1-based) that the token names.
OptionsNamed(opt, tok) == {i \in 1..Len(opt) : NamesOption(opt[i], tok)}

\* Some token of args names option o.
Named(o, args) == \E k \in 1..Len(args) : NamesOption(o, args[k])

\* C1: parse returns true if and only if it wrote no warning (no unknown
\* option, no missing value, no missing mandatory option); an option-shaped
\* token that names no registered option makes it return false.
C1_TrueIffNoWarning ==
    AfterParse => (Returned(TRUE) <=> cerr = <<>>)

\* C2: when a registered option is mandatory and no token names it, parse
\* returns false and reports that option as missing, whatever the other
\* tokens are.
C2_MissingMandatoryFails ==
    AfterParse =>
        \A i \in 1..Len(opt_) :
            ~opt_[i].optional /\ ~Named(opt_[i], call.args) =>
                /\ Returned(FALSE)
                /\ \E j \in 1..Len(cerr) : cerr[j] = MissingMandatoryOption(i - 1)

\* A parse whose tokens are all in order (an option is given its value and
\* nothing else is reported) but which leaves a mandatory option out.
C2_Witness ==
    /\ AfterParse
    /\ \E i, k \in 1..Len(opt_) :
          /\ ~opt_[i].optional /\ ~Named(opt_[i], call.args)
          /\ result_[k].present /\ result_[k].value = <<"f">>
          /\ cerr = <<MissingMandatoryOption(i - 1)>>
    /\ Returned(FALSE)

\* The token is an option of kind value without an inline value, so that the
\* next token is awaited as its value.
DefersValue(opt, tok) ==
    \E i \in 1..Len(opt) :
        /\ NamesOption(opt[i], tok)
        /\ \A j \in 1..(i - 1) : ~NamesOption(opt[j], tok)
        /\ opt[i].type = typeValue
        /\ ~RegexMatch(tok).hasValue

\* Token k of args is neither option-shaped nor the deferred value of the
\* token before it.
IsPositional(opt, args, k) ==
    /\ ~OptionShaped(args[k])
    /\ ~(k > 1 /\ DefersValue(opt, args[k - 1]))

\* The positional tokens of args, in the order of args.
RECURSIVE PositionalsFrom(_, _, _)
PositionalsFrom(opt, args, k) ==
    IF k > Len(args) THEN <<>>
    ELSE (IF IsPositional(opt, args, k) THEN <<args[k]>> ELSE <<>>)
         \o PositionalsFrom(opt, args, k + 1)

Outcome(r) == <<r.result, r.arg, r.isCorrect>>

\* Values to bind: non-empty strings that are plain text, not option-shaped.
PlainValues == {<<"f">>, <<"=", "f">>, <<"-">>, <<"f", LF, "f">>}

\* The four ways of giving value v to the option named s and l:
\* "-s"+v, "-s" v, "--l="+v, "--l" v.
BindingForms(s, l, v) ==
    {<< <<"-">> \o s \o v >>,
     << <<"-">> \o s, v >>,
     << <<"-", "-">> \o l \o <<"=">> \o v >>,
     << <<"-", "-">> \o l, v >>}

\* C4: for a value option with a short and a long name and a non-empty
\* plain-text value, the four forms of binding (inline or deferred, short or
\* long) give the same result store, positional arguments and return value.
C4_InlineEqualsDeferred ==
    \A i \in 1..Len(opt_) :
        /\ opt_[i].type = typeValue
        /\ opt_[i].shortName # Str0
        /\ opt_[i].longName # Str0
        => \A v \in PlainValues :
              /\ ~OptionShaped(v)
              /\ \A f1, f2 \in BindingForms(opt_[i].shortName, opt_[i].longName, v) :
                    Outcome(parse(opt_, result_, arg_, f1))
                        = Outcome(parse(opt_, result_, arg_, f2))

\* C5: whatever an earlier parse left, a parse leaves the result store, the
\* positional arguments and the return value that the same tokens give on a
\* fresh instance with the same registry.
C5_ParseResets ==
    AfterParse =>
        /\ Outcome(parse(opt_, <<>>, <<>>, call.args)) = <<result_, arg_, ret[1]>>
        /\ Len(result_) = Len(opt_)

\* A parse of no token on an instance that held present flags or positional
\* arguments: none of them is left.
C5_Witness ==
    /\ AfterParse
    /\ call.stale
    /\ call.args = <<>>
    /\ Len(opt_) > 0
    /\ arg_ = <<>>
    /\ \A i \in 1..Len(result_) : ~result_[i].present

\* C6: after a parse an option that is not present holds its default value,
\* and so does every trigger; a parse of no token on a registry without
\* mandatory option returns true, leaves every value at its default and the
\* positional arguments empty.
C6_DefaultsKept ==
    AfterParse =>
        /\ \A i \in 1..Len(opt_) :
              ~result_[i].present \/ opt_[i].type = typeTrigger
                  => result_[i].value = opt_[i].defaultVal
        /\ (call.args = <<>> /\ \A i \in 1..Len(opt_) : opt_[i].optional)
              => /\ Returned(TRUE)
                 /\ arg_ = <<>>
                 /\ \A i \in 1..Len(opt_) : result_[i].value = opt_[i].defaultVal

\* A trigger given with inline text is present and keeps its default "d",
\* beside an option that is absent and holds its default "d".
C6_Witness ==
    /\ AfterParse
    /\ \E i, k \in 1..Len(opt_) :
          /\ opt_[i].type = typeTrigger /\ result_[i].present
          /\ \E j \in 1..Len(call.args) :
                NamesOption(opt_[i], call.args[j]) /\ RegexMatch(call.args[j]).hasValue
          /\ result_[i].value = <<"d">>
          /\ ~result_[k].present /\ result_[k].value = <<"d">>

\* The value that occurrence k of args binds to option i (1-based), as a
\* sequence of one string; empty when token k does not name i, when i is a
\* trigger, and when the token has no inline value and no plain text follows.
BoundAt(opt, args, i, k) ==
    IF NamesOption(opt[i], args[k]) /\ opt[i].type = typeValue
    THEN IF RegexMatch(args[k]).hasValue THEN <<RegexMatch(args[k]).value>>
         ELSE IF k < Len(args) /\ ~OptionShaped(args[k + 1]) THEN <<args[k + 1]>>
         ELSE <<>>
    ELSE <<>>

\* C13: when the last token is a value option without inline value, parse
\* reports the missing value of that option and returns false; the value of
\* the option is what the tokens before the last one gave it, the default
\* when none of them bound a value to it.
C13_DanglingExpectation ==
    AfterParse /\ call.args # <<>> /\ DefersValue(opt_, call.args[Len(call.args)]) =>
        LET n == Len(call.args)
            before == SubSeq(call.args, 1, n - 1)
        IN \A i \in OptionsNamed(opt_, call.args[n]) :
              /\ \E j \in 1..Len(cerr) : cerr[j] = MissingValue(i - 1, Str0)
              /\ Returned(FALSE)
              /\ result_[i].value = parse(opt_, <<>>, <<>>, before).result[i].value
              /\ (\A k \in 1..(n - 1) : BoundAt(opt_, before, i, k) = <<>>)
                    => result_[i].value = opt_[i].defaultVal

\* The only token is value option a, whose default is "d": the missing value
\* is the one thing reported, parse returns false, and a is present with "d".
C13_Witness ==
    /\ AfterParse
    /\ Len(call.args) = 1
    /\ DefersValue(opt_, call.args[1])
    /\ \E i \in OptionsNamed(opt_, call.args[1]) :
          /\ cerr = <<MissingValue(i - 1, Str0)>>
          /\ result_[i] = [value |-> <<"d">>, present |-> TRUE]
    /\ Returned(FALSE)

\* C18: an option whose missing value is reported, abandoned or dangling, is
\* present after the parse, so that it is not reported as a missing
\* mandatory option; the parse returns false.
C18_MissingValueStillPresent ==
    AfterParse =>
        \A j \in 1..Len(cerr) :
            cerr[j].kind = "MissingValue" =>
                /\ result_[cerr[j].opt + 1].present
                /\ \A k \in 1..Len(cerr) : cerr[k] # MissingMandatoryOption(cerr[j].opt)
                /\ Returned(FALSE)

\* A mandatory value option is given twice without a value: both missing
\* values are reported and nothing else, and the option is present.
C18_Witness ==
    /\ AfterParse
    /\ Len(call.args) = 2
    /\ \E i \in 1..Len(opt_) :
          /\ ~opt_[i].optional
          /\ cerr = <<MissingValue(i - 1, call.args[2]), MissingValue(i - 1, Str0)>>
          /\ result_[i].present
    /\ Returned(FALSE)

-----------------------------------------------------------------------------
(* Properties of the registry *)

\* The option shares a non-empty short name or a non-empty long name with an
\* option of the registry.
SharesName(par, opt) ==
    \E i \in 1..Len(opt) :
        \/ par.shortName # Str0 /\ opt[i].shortName = par.shortName
        \/ par.longName # Str0 /\ opt[i].longName = par.longName

\* C7: addOption throws, leaving the registry as it was, exactly when the new
\* option shares a non-empty short name or a non-empty long name with a
\* registered option; otherwise it appends the option after the others.
C7_DuplicateExactlyOnSharedName ==
    [][call'.op = "addOption" =>
          /\ thrown' = "logic_error" <=> SharesName(call'.par[1], opt_)
          /\ thrown' = "logic_error" => opt_' = opt_
          /\ thrown' # "logic_error" =>
                thrown' = "none" /\ opt_' = opt_ \o call'.par]_vars

\* A second option was appended after the first, and the call that followed
\* shares only its long name with a registered option and threw.
C7_Witness ==
    /\ call.op = "addOption"
    /\ thrown = "logic_error"
    /\ Len(opt_) = 2
    /\ \E i \in 1..2 :
          /\ opt_[i].longName = call.par[1].longName
          /\ opt_[i].shortName # call.par[1].shortName
    /\ \A i \in 1..2 : opt_[i].shortName # call.par[1].shortName

\* C8: no two options of the registry share a non-empty short name, and no
\* two share a non-empty long name.
C8_NamesUnique ==
    \A i, j \in 1..Len(opt_) :
        i # j =>
            /\ opt_[i].shortName = Str0 \/ opt_[i].shortName # opt_[j].shortName
            /\ opt_[i].longName = Str0 \/ opt_[i].longName # opt_[j].longName

\* A registry of two options after a call of addOption that threw.
C8_Witness ==
    /\ Len(opt_) = 2
    /\ call.op = "addOption"
    /\ thrown = "logic_error"
    /\ opt_[1].shortName # Str0 /\ opt_[2].shortName # Str0
    /\ opt_[1].longName # Str0 /\ opt_[2].longName # Str0

\* C9: every option of the registry has a short name or a long name: an
\* option without any name is rejected by addOption.
C9_EveryOptionNamed ==
    \A i \in 1..Len(opt_) : opt_[i].shortName # Str0 \/ opt_[i].longName # Str0

-----------------------------------------------------------------------------
(* Properties of the queries *)

AfterQuery == call.op \in {"gotOption", "optionValue"}

\* C10: on an instance that has never parsed, gotOption and optionValue throw
\* "options not parsed" for every name and every registry, the empty registry
\* included.
C10_NeverParsedThrowsNotParsed ==
    AfterQuery /\ ~parsed => thrown = "runtime_error"

\* C10, amended: on an instance that has never parsed, gotOption and
\* optionValue never return; they throw "options not parsed" when the
\* registry holds an option, and "no option with name" when it is empty.
C10_NeverParsedNeverReturns ==
    AfterQuery /\ ~parsed =>
        /\ ret = <<>>
        /\ thrown = IF Len(opt_) > 0 THEN "runtime_error" ELSE "out_of_range"

\* Before any parse, a query by a name that no option of a non-empty registry
\* has throws "options not parsed".
C10_Witness ==
    /\ AfterQuery
    /\ ~parsed
    /\ Len(opt_) > 0
    /\ optIndex(opt_, call.name) < 0
    /\ thrown = "runtime_error"

\* The name is a non-empty name of option o.
IsNameOf(o, name) ==
    name # Str0 /\ (o.shortName = name \/ o.longName = name)

\* C11: gotOption called after a parse, by a non-empty name of a registered
\* option o, returns true if and only if some token of that parse named o (a
\* short token by o's short name, a long token by o's long name); called by a
\* name that no registered option has, it throws "no option with name".
C11_PresenceIffProcessed ==
    [][call.op = "parse" /\ call'.op = "gotOption" =>
          /\ \A i \in 1..Len(opt_) :
                IsNameOf(opt_[i], call'.name) =>
                    /\ thrown' = "none"
                    /\ ret' = <<Named(opt_[i], call.args)>>
          /\ optIndex(opt_, call'.name) < 0 => thrown' = "out_of_range"]_vars

\* C19: however addOption, parse and the queries are interleaved, a query
\* returns only when the result store has the size of the registry and the
\* name resolves to an index of it, so that the entry it reads exists; while
\* the sizes differ every query throws "options not parsed", whether the name
\* is known or not; and once parse has run, a successful addOption makes the
\* sizes differ.
C19_QueriesReadExistingEntries ==
    /\ [](AfterQuery =>
            /\ thrown = "none" =>
                  /\ Len(result_) = Len(opt_)
                  /\ optIndex(opt_, call.name) + 1 \in DOMAIN result_
                  /\ ret # <<>>
            /\ Len(result_) # Len(opt_) => thrown = "runtime_error" /\ ret = <<>>)
    /\ [][call'.op = "addOption" /\ thrown' = "none" /\ parsed =>
             Len(result_') < Len(opt_')]_vars

\* After a parse and a successful addOption, a query by the name of the
\* option that was registered before the parse throws "options not parsed".
C19_Witness ==
    /\ AfterQuery
    /\ parsed
    /\ Len(result_) = 1
    /\ Len(opt_) = 2
    /\ optIndex(opt_, call.name) = 0
    /\ thrown = "runtime_error"

-----------------------------------------------------------------------------
(* Properties of the loop of parse *)

\* A turn of the loop is about to handle the token at the front of the queue.
AtToken == pc = "loop" /\ argQueue # <<>>

\* The number of tokens that the running parse has handled.
Handled == Len(call.args) - Len(argQueue)

\* C12: when an option-shaped token arrives while option e awaits its value,
\* the turn of the loop reports the missing value of e, fails the parse and
\* handles the token as an option: a registered option is marked present and
\* takes the inline value or becomes the awaited one, an unregistered one is
\* reported; the value of e is touched only by an inline value of its own
\* token, the token is stored nowhere as a value and is not a positional
\* argument, the loop goes on with the next token, and a parse that failed
\* stays failed and returns false.
C12_AbandonedExpectation ==
    [][/\ AtToken /\ expectVal >= 0 /\ OptionShaped(Head(argQueue)) =>
            LET tok == Head(argQueue)
                sm == RegexMatch(tok)
                e == expectVal + 1
                hit == OptionsNamed(opt_, tok)
            IN /\ isCorrect' = FALSE
               /\ arg_' = arg_
               /\ argQueue' = Tail(argQueue) /\ pc' = "loop"
               /\ \A j \in 1..Len(opt_) :
                     result_'[j].value = tok => result_[j].value = tok
               /\ (e \notin hit \/ ~sm.hasValue) => result_'[e].value = result_[e].value
               /\ hit = {} =>
                     /\ cerr' = cerr \o <<MissingValue(expectVal, tok), UnknownOption(tok)>>
                     /\ result_' = result_
                     /\ expectVal' = -1
               /\ \A i \in hit :
                     /\ cerr' = cerr \o <<MissingValue(expectVal, tok)>>
                     /\ result_'[i].present
                     /\ \A j \in 1..Len(opt_) : j # i => result_'[j] = result_[j]
                     /\ result_'[i].value =
                           IF opt_[i].type = typeValue /\ sm.hasValue
                           THEN sm.value ELSE result_[i].value
                     /\ expectVal' =
                           IF opt_[i].type = typeValue /\ ~sm.hasValue
                           THEN i - 1 ELSE -1
       /\ pc = "loop" /\ ~isCorrect => ~isCorrect' /\ (pc' = "idle" => ret' = <<FALSE>>)]_vars

\* Value option a awaited its value when a second "-a" arrived: the missing
\* value is reported, the parse has failed, a keeps its default and is
\* awaited again, and nothing is positional.
C12_Witness ==
    /\ pc = "loop"
    /\ Handled = 2
    /\ expectVal = 0
    /\ ~RegexMatch(call.args[2]).hasValue
    /\ cerr = <<MissingValue(0, call.args[2])>>
    /\ ~isCorrect
    /\ result_[1] = [value |-> opt_[1].defaultVal, present |-> TRUE]
    /\ arg_ = <<>>

\* The token that the running parse handled last named a trigger.
TriggerHandledLast ==
    /\ pc = "loop"
    /\ Handled >= 1
    /\ \E i \in OptionsNamed(opt_, call.args[Handled]) : opt_[i].type = typeTrigger

\* C14: the turn of the loop that handles a token naming a trigger marks the
\* trigger present and changes nothing else of the results, with or without
\* inline text: no value is written, no value is awaited afterwards, nothing
\* becomes positional; plain text that follows is a positional argument.
C14_TriggerCarriesNoValue ==
    [][/\ AtToken =>
            \A i \in OptionsNamed(opt_, Head(argQueue)) :
                opt_[i].type = typeTrigger =>
                    /\ result_' = [result_ EXCEPT ![i].present = TRUE]
                    /\ expectVal' = -1
                    /\ arg_' = arg_
                    /\ cerr' = IF expectVal >= 0
                               THEN cerr \o <<MissingValue(expectVal, Head(argQueue))>>
                               ELSE cerr
       /\ TriggerHandledLast /\ AtToken /\ ~OptionShaped(Head(argQueue)) =>
            /\ arg_' = Append(arg_, Head(argQueue))
            /\ result_' = result_]_vars

\* A trigger with default "d" was given as "--la=f" and plain text followed:
\* the trigger is present and holds "d", and the plain text is positional.
C14_Witness ==
    /\ pc = "loop"
    /\ Handled = 2
    /\ \E i \in OptionsNamed(opt_, call.args[1]) :
          /\ opt_[i].type = typeTrigger
          /\ RegexMatch(call.args[1]).hasValue
          /\ result_[i] = [value |-> <<"d">>, present |-> TRUE]
    /\ ~OptionShaped(call.args[2])
    /\ arg_ = <<call.args[2]>>
    /\ expectVal = -1

-----------------------------------------------------------------------------
(* Properties of the token classifier *)

\* The token begins with "--" and a character of a name.
BeginsLongName(tok) ==
    Len(tok) >= 3 /\ tok[1] = "-" /\ tok[2] = "-" /\ IsNameChar(tok[3])

\* The position of the first "=" of the token, Len(tok) + 1 when it has none.
FirstEq(tok) ==
    IF \E q \in 1..Len(tok) : tok[q] = "="
    THEN CHOOSE q \in 1..Len(tok) : tok[q] = "=" /\ \A r \in 1..(q - 1) : tok[r] # "="
    ELSE Len(tok) + 1

\* C15: a token is a short option, a long option or plain text, and one of
\* them only; "-" is plain text; a token that begins with "--" and a name is
\* a long option whose name is the text up to the "=" (up to the end without
\* "=") and whose inline value is the text after that "=": without "=" there
\* is no inline value.
C15_LongFormClassification ==
    call.op = "regex_match" /\ ret # <<>> =>
        LET tok == call.args[1]
            sm == ret[1]
        IN /\ sm.matched <=> (sm.short \/ sm.long)
           /\ ~(sm.short /\ sm.long)
           /\ tok = <<"-">> => ~sm.matched
           /\ BeginsLongName(tok) =>
                 /\ sm.long
                 /\ sm.name = SubSeq(tok, 3, FirstEq(tok) - 1)
                 /\ sm.hasValue => sm.value = substr(tok, FirstEq(tok) + 1)
                 /\ FirstEq(tok) > Len(tok) => ~sm.hasValue

\* C16: parse handles every token once and in order, as an option, as the
\* awaited value or as a positional argument, whatever was reported before;
\* it returns only when no token is left, after the checks at the end of the
\* stream; and a parse that has begun returns.
C16_EveryTokenOnceThenReturn ==
    /\ [](pc = "loop" =>
            /\ Handled \in 0..Len(call.args)
            /\ argQueue = SubSeq(call.args, Handled + 1, Len(call.args)))
    /\ [][/\ AtToken =>
                LET tok == Head(argQueue)
                IN /\ argQueue' = Tail(argQueue)
                   /\ pc' = "loop"
                   /\ OptionShaped(tok) =>
                         /\ arg_' = arg_
                         /\ \A i \in OptionsNamed(opt_, tok) : result_'[i].present
                   /\ ~OptionShaped(tok) /\ expectVal >= 0 =>
                         /\ arg_' = arg_
                         /\ result_' = [result_ EXCEPT ![expectVal + 1].value = tok]
                         /\ expectVal' = -1
                   /\ ~OptionShaped(tok) /\ expectVal < 0 =>
                         /\ arg_' = Append(arg_, tok)
                         /\ result_' = result_
                         /\ expectVal' = -1
          /\ pc = "loop" /\ argQueue = <<>> =>
                /\ pc' = "idle"
                /\ ret' = <<isCorrect /\ expectVal < 0 /\
                            \A i \in 1..Len(opt_) : opt_[i].optional \/ result_[i].present>>
                /\ arg_' = arg_
                /\ result_' = result_]_vars
    /\ (pc = "loop" ~> (pc = "idle" /\ ret # <<>>))

\* parse has returned from two tokens: the first was reported as an unknown
\* option, and the second was still handled, as a positional argument.
C16_Witness ==
    /\ pc = "idle"
    /\ AfterParse
    /\ Len(call.args) = 2
    /\ Len(cerr) >= 1
    /\ cerr[1] = UnknownOption(call.args[1])
    /\ arg_ = <<call.args[2]>>
    /\ ret # <<>>

\* C17: while parse runs, expectVal is -1 or the index of a registered value
\* option that is present and that the token handled last named without an
\* inline value; outside the loop it is -1; and the awaited value is written
\* to the result entry of that option and to no other.
C17_ExpectingInvariant ==
    /\ [](/\ pc = "loop" => Len(result_) = Len(opt_)
          /\ \/ expectVal = -1
             \/ /\ pc = "loop"
                /\ Handled >= 1
                /\ expectVal \in 0..(Len(opt_) - 1)
                /\ opt_[expectVal + 1].type = typeValue
                /\ result_[expectVal + 1].present
                /\ NamesOption(opt_[expectVal + 1], call.args[Handled])
                /\ ~RegexMatch(call.args[Handled]).hasValue)
    /\ [][AtToken /\ result_' # result_ /\ ~OptionShaped(Head(argQueue)) =>
             /\ expectVal + 1 \in DOMAIN result_
             /\ opt_[expectVal + 1].type = typeValue
             /\ result_' = [result_ EXCEPT ![expectVal + 1].value = Head(argQueue)]]_vars

\* After a positional argument, a value option without inline value was
\* handled and is awaited.
C17_Witness ==
    /\ pc = "loop"
    /\ Handled = 2
    /\ expectVal >= 0
    /\ arg_ = <<call.args[1]>>
    /\ NamesOption(opt_[expectVal + 1], call.args[2])
    /\ isCorrect

\* The occurrences of args that bind a value to option i.
BindingOccurrences(opt, args, i) ==
    {k \in 1..Len(args) : BoundAt(opt, args, i, k) # <<>>}

\* C20: after a parse, a value option to which some occurrence bound a value,
\* inline or deferred, is present and holds the value of the last of these
\* occurrences.
C20_LastBoundValueWins ==
    pc = "idle" /\ AfterParse =>
        \A i \in 1..Len(opt_) :
            LET ks == BindingOccurrences(opt_, call.args, i)
            IN ks # {} =>
                  /\ result_[i].present
                  /\ \E k \in ks :
                        /\ \A m \in ks : m <= k
                        /\ <<result_[i].value>> = BoundAt(opt_, call.args, i, k)

\* Two occurrences bound different values to an option, which holds the
\* second one.
C20_Witness ==
    /\ pc = "idle"
    /\ AfterParse
    /\ \E i \in 1..Len(opt_) :
          \E k1, k2 \in BindingOccurrences(opt_, call.args, i) :
              /\ k1 < k2
              /\ BoundAt(opt_, call.args, i, k1) # BoundAt(opt_, call.args, i, k2)
              /\ <<result_[i].value>> = BoundAt(opt_, call.args, i, k2)

====
